---- MODULE Spec2Model ----
(***************************************************************************)
(* MedView chat widget (streamlit_app.py): the per-session conversation    *)
(* state (st.session_state.messages / .category), the script run that a    *)
(* UI event triggers (MedViewChat() then run()), and the API adapter       *)
(* (query / get_bot_response) applied to every outcome the HTTP call can   *)
(* have.                                                                   *)
(*                                                                         *)
(* Python values are tagged records (PyStr, PyDict, PyInt, PyList,        *)
(* PyNone).  A call evaluates to Return(v) or Raise(exceptionClass).       *)
(***************************************************************************)
EXTENDS Integers, Sequences, FiniteSets, TLC

VARIABLES
    keys,       \* the keys present in st.session_state
    messages,   \* st.session_state.messages (<<>> while the key is absent)
    category,   \* st.session_state.category (NoValue while the key is absent)
    radio,      \* the option selected in the sidebar's st.radio widget
    prompt,     \* what st.chat_input returns in the current script run
    pc,         \* position of the script run
    net,        \* outcome of the HTTP call of the current script run
    request,    \* JSON body of the requests.post of the current script run
    posted,     \* number of requests.post calls issued in the session
    submitted,  \* history: the prompts submitted, in submission order
    crashed     \* exception class that aborted the last script run, or ""

vars == <<keys, messages, category, radio, prompt, pc, net, request, posted,
          submitted, crashed>>

\* Number of chat submissions explored in one session.
MaxSubmissions == 2

-----------------------------------------------------------------------------
(* Python values *)

PyStr(s)   == [type |-> "str", val |-> s]
PyDict(f)  == [type |-> "dict", items |-> f]
PyInt(n)   == [type |-> "int", num |-> n]
PyList(s)  == [type |-> "list", elems |-> s]
PyNone     == [type |-> "NoneType"]

Return(v) == [raised |-> FALSE, value |-> v]
Raise(e)  == [raised |-> TRUE, exc |-> e]

NoValue  == "<absent>"
NoPrompt == "<none>"
NoOutcome == [kind |-> "none"]
NoRequest == [sent |-> FALSE]

-----------------------------------------------------------------------------
(* Literals of the program *)

GREETING ==
    "Hello! I'm your MedView assistant. How can I help you with your medical device today?"

DEFAULT_CATEGORY == "General"

APOLOGY_CONNECTING ==
    "I apologize, but I'm having trouble connecting. Please try again."

APOLOGY_ERROR ==
    "I apologize, but I encountered an error. Please try again in a moment."

\* list(get_category_descriptions().keys()): the radio's options, in order.
get_category_descriptions ==
    << "Setup & Sensor Placement",
       "Calibration & Device Connection",
       "Understanding Readings & Alerts",
       "Daily Usage & Data Management",
       "Maintenance & Sensor Replacement",
       "Troubleshooting & Common Issues",
       "Travel & Storage" >>

Catalog == { get_category_descriptions[i] : i \in DOMAIN get_category_descriptions }

\* query's in-band failure value.
ErrorSentinel == PyDict([error |-> PyStr("Failed to get response from API")])

-----------------------------------------------------------------------------
(* Inputs: what the user types and what the network answers *)

Questions == { "How do I calibrate?", "What sensor do I need?" }

SensorText == "Place the sensor on your upper arm."

\* Decoded JSON bodies of a 2xx response.
Payloads ==
    { PyDict([text |-> PyStr(SensorText)]),
      PyDict([text |-> PyStr(SensorText), sessionId |-> PyStr("s1")]),
      PyDict([text |-> PyStr(SensorText), error |-> PyStr("quota warning")]),
      PyDict([text |-> PyInt(5)]),
      PyDict([answer |-> PyStr("ok")]),
      PyDict([answer |-> PyStr("ok"), error |-> PyStr("partial")]),
      PyStr("ok"),
      PyStr("no error found"),
      PyInt(5),
      PyNone,
      PyList(<<PyStr("ok")>>) }

\* The exception class response.json() raises on a body that is not JSON:
\* requests >= 2.27 raises requests.exceptions.JSONDecodeError (a
\* RequestException), older releases raise a plain ValueError subclass.
DecodeErrors == { "requests.JSONDecodeError", "ValueError" }

PostErrors == { "ConnectionError", "Timeout" }

NetOutcomes ==
    { [kind |-> "post_raises", exc |-> e] : e \in PostErrors }
    \cup { [kind |-> "response", status |-> st, json |-> Return(PyNone)] : st \in { 404, 500 } }
    \cup { [kind |-> "response", status |-> 200, json |-> Return(p)] : p \in Payloads }
    \cup { [kind |-> "response", status |-> 200, json |-> Raise(e)] : e \in DecodeErrors }

\* Classes derived from requests.exceptions.RequestException.
IsRequestException(e) ==
    e \in { "ConnectionError", "Timeout", "HTTPError", "requests.JSONDecodeError" }

\* Classes derived from Exception (all the classes that occur here).
IsException(e) ==
    IsRequestException(e) \/ e \in { "ValueError", "TypeError", "AttributeError" }

-----------------------------------------------------------------------------
(* Python operations used by get_bot_response *)

\* `"error" in s` for a str s: substring test, tabulated on the strings of
\* the model.
StrContainsError(s) == s \in { "no error found", "error" }

\* key in container
py_contains(container, key) ==
    CASE container.type = "dict" -> Return(key \in DOMAIN container.items)
      [] container.type = "str"  -> Return(StrContainsError(container.val))
      [] container.type = "list" ->
            Return(\E i \in DOMAIN container.elems : container.elems[i] = PyStr(key))
      [] OTHER -> Raise("TypeError")

\* obj.get(key, default)
py_get(obj, key, default) ==
    IF obj.type = "dict"
    THEN Return(IF key \in DOMAIN obj.items THEN obj.items[key] ELSE default)
    ELSE Raise("AttributeError")

\* A log insertion that puts the new entry first.
append_front(log, msg) == <<msg>> \o log

\* list.append
append(log, msg) == Append(log, msg)

Message(role, content) == [role |-> role, content |-> content]

Payload(question, cat) == [question |-> question, category |-> cat]

-----------------------------------------------------------------------------
(* API adapter *)

\* The body of query's try block: requests.post, raise_for_status, json().
query_try(payload, o) ==
    IF o.kind = "post_raises" THEN Raise(o.exc)
    ELSE IF o.status \in 400..599 THEN Raise("HTTPError")
    ELSE o.json

\* A query without its except clause.
query_uncaught(payload, o) == query_try(payload, o)

\* query: a RequestException becomes the in-band error value; any other
\* exception propagates to the caller.
query(payload, o) ==
    LET r == query_try(payload, o) IN
    IF r.raised /\ IsRequestException(r.exc) THEN Return(ErrorSentinel) ELSE r

\* A body that returns the decoded response without extracting "text".
get_bot_response_try_raw(question, cat, o) ==
    LET response == query(Payload(question, cat), o) IN
    IF response.raised THEN response
    ELSE LET hasError == py_contains(response.value, "error") IN
         IF hasError.raised THEN hasError
         ELSE IF hasError.value THEN Return(PyStr(APOLOGY_CONNECTING))
         ELSE Return(response.value)

\* The body of get_bot_response's try block.
get_bot_response_try(question, cat, o) ==
    LET response == query(Payload(question, cat), o) IN
    IF response.raised THEN response
    ELSE LET hasError == py_contains(response.value, "error") IN
         IF hasError.raised THEN hasError
         ELSE IF hasError.value THEN Return(PyStr(APOLOGY_CONNECTING))
         ELSE py_get(response.value, "text", response.value)

\* A get_bot_response without its except clause.
get_bot_response_uncaught(question, cat, o) ==
    get_bot_response_try(question, cat, o)

\* get_bot_response: `except Exception` maps whatever the body raises to
\* the second apology.
get_bot_response(question, cat, o) ==
    LET r == get_bot_response_try(question, cat, o) IN
    IF r.raised /\ IsException(r.exc) THEN Return(PyStr(APOLOGY_ERROR)) ELSE r

-----------------------------------------------------------------------------
(* Session and script run *)

Init ==
    /\ keys = {}
    /\ messages = <<>>
    /\ category = NoValue
    /\ radio = get_category_descriptions[1]
    /\ prompt = NoPrompt
    /\ pc = "init"
    /\ net = NoOutcome
    /\ request = NoRequest
    /\ posted = 0
    /\ submitted = <<>>
    /\ crashed = ""

\* An initialisation that seeds both keys on every script run.
initialize_session_state_reset ==
    /\ pc = "init"
    /\ messages' = << Message("assistant", PyStr(GREETING)) >>
    /\ category' = DEFAULT_CATEGORY
    /\ keys' = keys \cup { "messages", "category" }
    /\ pc' = "run"
    /\ UNCHANGED <<radio, prompt, net, request, posted, submitted, crashed>>

\* MedViewChat.__init__: seed the keys that are not in st.session_state.
initialize_session_state ==
    /\ pc = "init"
    /\ messages' = IF "messages" \notin keys
                   THEN << Message("assistant", PyStr(GREETING)) >>
                   ELSE messages
    /\ category' = IF "category" \notin keys THEN DEFAULT_CATEGORY ELSE category
    /\ keys' = keys \cup { "messages", "category" }
    /\ pc' = "run"
    /\ UNCHANGED <<radio, prompt, net, request, posted, submitted, crashed>>

\* render_sidebar: the value of the st.radio widget.
render_sidebar == radio

\* A run that does not store the sidebar's selection.
run_keep_category ==
    /\ pc = "run"
    /\ pc' = "render"
    /\ UNCHANGED <<keys, messages, category, radio, prompt, net, request, posted,
                   submitted, crashed>>

\* run, up to the call of render_chat_interface.
run ==
    /\ pc = "run"
    /\ category' = render_sidebar
    /\ keys' = keys \cup { "category" }
    /\ pc' = "render"
    /\ UNCHANGED <<messages, radio, prompt, net, request, posted, submitted, crashed>>

\* render_chat_interface, up to the call of get_bot_response: without a
\* prompt the script run ends, with one the user message is appended.
render_chat_interface ==
    /\ pc = "render"
    /\ IF prompt = NoPrompt
       THEN /\ pc' = "idle"
            /\ UNCHANGED messages
       ELSE /\ messages' = append(messages, Message("user", PyStr(prompt)))
            /\ pc' = "call"
    /\ UNCHANGED <<keys, category, radio, prompt, net, request, posted, submitted, crashed>>

\* A post that is retried once.
requests_post_retry ==
    /\ pc = "call"
    /\ request' = [sent |-> TRUE, json |-> Payload(prompt, category)]
    /\ posted' = posted + 2
    /\ pc' = "sending"
    /\ UNCHANGED <<keys, messages, category, radio, prompt, net, submitted, crashed>>

\* get_bot_response builds the payload and query posts it: the call blocks.
requests_post ==
    /\ pc = "call"
    /\ request' = [sent |-> TRUE, json |-> Payload(prompt, category)]
    /\ posted' = posted + 1
    /\ pc' = "sending"
    /\ UNCHANGED <<keys, messages, category, radio, prompt, net, submitted, crashed>>

\* The call resolves with outcome o; get_bot_response returns (or raises)
\* and render_chat_interface appends the reply.
resolve(o) ==
    /\ pc = "sending"
    /\ net' = o
    /\ LET r == get_bot_response(prompt, category, o) IN
       IF r.raised
       THEN /\ crashed' = r.exc
            /\ UNCHANGED messages
       ELSE /\ crashed' = ""
            /\ messages' = append(messages, Message("assistant", r.value))
    /\ prompt' = NoPrompt
    /\ pc' = "idle"
    /\ UNCHANGED <<keys, category, radio, request, posted, submitted>>

\* UI event: the user picks option c of the radio; the script reruns.
select_category(c) ==
    /\ pc = "idle"
    /\ radio' = c
    /\ prompt' = NoPrompt
    /\ crashed' = ""
    /\ net' = NoOutcome
    /\ request' = NoRequest
    /\ pc' = "init"
    /\ UNCHANGED <<keys, messages, category, posted, submitted>>

\* UI event: the user submits q in st.chat_input; the script reruns.
chat_input(q) ==
    /\ pc = "idle"
    /\ Len(submitted) < MaxSubmissions
    /\ prompt' = q
    /\ submitted' = Append(submitted, q)
    /\ crashed' = ""
    /\ net' = NoOutcome
    /\ request' = NoRequest
    /\ pc' = "init"
    /\ UNCHANGED <<keys, messages, category, radio, posted>>

Next ==
    \/ initialize_session_state
    \/ run
    \/ render_chat_interface
    \/ requests_post
    \/ \E o \in NetOutcomes : resolve(o)
    \/ \E c \in Catalog : select_category(c)
    \/ \E q \in Questions : chat_input(q)

Spec == Init /\ [][Next]_vars

-----------------------------------------------------------------------------
(* Properties *)

Last(seq) == seq[Len(seq)]

Success(o) == o.kind = "response" /\ o.status \in 200..299 /\ ~o.json.raised

TransportFailure(o) ==
    \/ o.kind = "post_raises"
    \/ o.kind = "response" /\ o.status \notin 200..299

HasTextField(v) == v.type = "dict" /\ "text" \in DOMAIN v.items

\* The script run of a submission has ended.
Replied == pc = "idle" /\ net # NoOutcome

\* C1: per submission the user message is appended before the request is
\* issued, exactly one request is issued, exactly one assistant message is
\* appended and only once the request has resolved; the user/assistant
\* pairs are in the log in submission order.
C1_SubmissionOrder ==
    LET n == Len(submitted) IN
    /\ \A k \in 1..n :
          /\ 2 * k <= Len(messages)
                => messages[2 * k] = Message("user", PyStr(submitted[k]))
          /\ 2 * k + 1 <= Len(messages) => messages[2 * k + 1].role = "assistant"
    /\ pc \in { "init", "run", "render" } /\ prompt # NoPrompt
          => /\ posted = n - 1
             /\ ~request.sent
             /\ "messages" \in keys => Len(messages) = 2 * n - 1
    /\ pc = "call"
          => /\ posted = n - 1
             /\ ~request.sent
             /\ Len(messages) = 2 * n
    /\ pc = "sending"
          => /\ posted = n
             /\ request.sent /\ request.json.question = submitted[n]
             /\ net = NoOutcome
             /\ Len(messages) = 2 * n
    /\ pc = "idle" \/ prompt = NoPrompt
          => /\ posted = n
             /\ "messages" \in keys => Len(messages) = 2 * n + 1
    /\ Replied
          => /\ request.sent
             /\ crashed = ""
             /\ Last(messages) =
                  Message("assistant", get_bot_response(submitted[n], category, net).value)

C1_Witness ==
    /\ Replied
    /\ Len(submitted) >= 2
    /\ posted = Len(submitted)
    /\ Len(messages) = 2 * Len(submitted) + 1
    /\ submitted[1] # submitted[2]

\* C2: the log is append-only: a step leaves it alone or adds exactly one
\* entry at the end, every earlier entry staying unchanged at its position.
C2_AppendOnly ==
    [][ /\ Len(messages') \in { Len(messages), Len(messages) + 1 }
        /\ SubSeq(messages', 1, Len(messages)) = messages ]_vars

C2_Witness ==
    /\ pc = "run"
    /\ Len(messages) >= 5
    /\ radio # get_category_descriptions[1]

\* C3: whenever the session holds a category, it is one of the seven
\* labels of the catalog.
C3_CategoryInCatalog == "category" \in keys => category \in Catalog

C5_RawPayloadReturned ==
    ( /\ Replied
      /\ Success(net)
      /\ net.json.value.type \in { "dict", "str" }
      /\ ~HasTextField(net.json.value) )
        => /\ crashed = ""
           /\ Last(messages) = Message("assistant", net.json.value)

C7_RequestBody ==
    request.sent
        => /\ request.json = [question |-> Last(submitted), category |-> radio]
           /\ request.json.category \in Catalog

C7_Witness ==
    /\ pc = "sending"
    /\ request.sent
    /\ Len(submitted) >= 2
    /\ request.json.category = "Calibration & Device Connection"
    /\ request.json.question = "How do I calibrate?"

\* The handling of a decoded payload raises: `"error" in payload` or
\* payload.get.
HandlingRaises(v) ==
    LET c == py_contains(v, "error") IN
    c.raised \/ (~c.value /\ py_get(v, "text", v).raised)

\* C8 as stated: every failure on a 2xx response, a decoding error
\* included, ends in the second apology, and nothing is raised.
C8_OtherFailureApology_AnyFailure ==
    /\ APOLOGY_ERROR # APOLOGY_CONNECTING
    /\ Replied => crashed = ""
    /\ ( /\ Replied
         /\ net.kind = "response"
         /\ net.status \in 200..299
         /\ net.json.raised \/ HandlingRaises(net.json.value) )
           => Last(messages) = Message("assistant", PyStr(APOLOGY_ERROR))

\* C8 amended: every failure on a 2xx response that is not raised as a
\* RequestException ends in the second apology, a decoding error raised as
\* a RequestException ends in the connection apology, and nothing is raised.
C8_OtherFailureApology ==
    /\ APOLOGY_ERROR # APOLOGY_CONNECTING
    /\ Replied => crashed = ""
    /\ ( /\ Replied
         /\ net.kind = "response"
         /\ net.status \in 200..299
         /\ IF net.json.raised
            THEN ~IsRequestException(net.json.exc)
            ELSE HandlingRaises(net.json.value) )
           => Last(messages) = Message("assistant", PyStr(APOLOGY_ERROR))
    /\ ( /\ Replied
         /\ net.kind = "response"
         /\ net.status \in 200..299
         /\ net.json.raised
         /\ IsRequestException(net.json.exc) )
           => Last(messages) = Message("assistant", PyStr(APOLOGY_CONNECTING))

C8_Witness ==
    /\ Replied
    /\ net.kind = "response"
    /\ net.status = 200
    /\ net.json.raised
    /\ net.json.exc = "ValueError"
    /\ Last(messages) = Message("assistant", PyStr(APOLOGY_ERROR))

\* C9: initialize on a session without state yields the one greeting and
\* category "General"; on a session with state it changes neither the log
\* nor the category.
C9_InitializeIdempotent ==
    [][ pc = "init" /\ pc' = "run"
          => /\ keys = {}
                => /\ messages' = << Message("assistant", PyStr(GREETING)) >>
                   /\ category' = "General"
             /\ keys # {}
                => /\ keys = { "messages", "category" }
                   /\ messages' = messages
                   /\ category' = category ]_vars

C9_Witness ==
    /\ pc = "run"
    /\ Len(messages) = 2 * MaxSubmissions + 1
    /\ category \in Catalog
    /\ category # radio

\* C10: every entry of the log has role user or assistant and a content
\* that is a string.
C10_MessagesWellTyped ==
    \A i \in DOMAIN messages :
        /\ messages[i].role \in { "user", "assistant" }
        /\ messages[i].content.type = "str"

====
